---- MODULE Spec2Model ----
(***************************************************************************)
(* State-machine model of the UFCA ledger, the contract                    *)
(* InvestmentUnitUpgradeable (contracts/InvestmentUnitUpgradeable.sol as   *)
(* emitted by create_project.sh): an ERC20 balance ledger with an owner,   *)
(* a whitelist, per-address freeze, a global pause and one linear vesting  *)
(* schedule per address.                                                   *)
(*                                                                         *)
(* Every external call is one atomic step.  A call that reverts leaves the *)
(* storage as it was.  The outcome of the call (operation, arguments,      *)
(* revert reason) is held in `last` until the caller has read it; the next *)
(* call is made after that.  The                                           *)
(* inherited OpenZeppelin 4.9 functions the contract calls (_mint, _burn,  *)
(* _transfer, transfer, onlyOwner, whenNotPaused, _pause, _unpause) are    *)
(* modelled by their checks and effects in the order they run.             *)
(*                                                                         *)
(* Integer widths are scaled down: U64Max stands for 2^64-1 and U256Max    *)
(* for 2^256-1; Solidity 0.8 checked arithmetic reverts with a panic when  *)
(* a result leaves the width.                                              *)
(*                                                                         *)
(* Not modelled: allowances (approve/transferFrom), ownership transfer and *)
(* the UUPS upgrade entry points inherited from the libraries.             *)
(***************************************************************************)
EXTENDS Integers, FiniteSets, TLC

\* ---------------------------------------------------------------- bounds
MaxTime == 3
MaxMinted == 2

\* ------------------------------------------------------ scaled type widths
\* type(uint64).max and type(uint256).max, scaled down
U64Max == 6
U256Max == 7

\* ------------------------------------------------------------- identities
ZERO == "0x0"
Deployer == "deployer"
Holders == {"deployer", "alice"}
Account == Holders \cup {ZERO}
Amounts == {0, 1, 2}
Durations == {2, U64Max}
\* the accounts the explored vesting mints are addressed to
Beneficiaries == {"alice"}

\* ---------------------------------------------------------- revert reasons
OK == "ok"
ErrNotOwner == "Ownable: caller is not the owner"
ErrNotWhitelisted == "Not whitelisted"
ErrVestingExists == "Vesting exists"
ErrPaused == "Pausable: paused"
ErrNotPaused == "Pausable: not paused"
ErrSenderFrozen == "Sender frozen"
ErrSenderNotWhitelisted == "Sender not whitelisted"
ErrAmountLocked == "Amount locked"
ErrReceiverFrozen == "Receiver frozen"
ErrReceiverNotWhitelisted == "Receiver not whitelisted"
ErrMintToZero == "ERC20: mint to the zero address"
ErrBurnFromZero == "ERC20: burn from the zero address"
ErrTransferToZero == "ERC20: transfer to the zero address"
ErrTransferExceeds == "ERC20: transfer amount exceeds balance"
ErrBurnExceeds == "ERC20: burn amount exceeds balance"
ErrPanic == "Panic(0x11)"

\* The error names of the specification stand for these reasons:
\* Unauthorized = ErrNotOwner; NotWhitelisted = ErrNotWhitelisted,
\* ErrSenderNotWhitelisted, ErrReceiverNotWhitelisted; AddressFrozen =
\* ErrSenderFrozen, ErrReceiverFrozen; SystemPaused = ErrPaused; AmountLocked =
\* ErrAmountLocked; InsufficientBalance = ErrTransferExceeds, ErrBurnExceeds;
\* VestingAlreadyExists = ErrVestingExists.

\* ------------------------------------------------------------------ state
VARIABLES
    owner,          \* OwnableUpgradeable._owner
    paused,         \* PausableUpgradeable._paused
    balances,       \* ERC20Upgradeable._balances
    totalSupply,    \* ERC20Upgradeable._totalSupply
    whitelist,      \* mapping(address => bool) whitelist
    frozen,         \* mapping(address => bool) frozen
    vesting,        \* mapping(address => Vesting) vesting
    now,            \* block.timestamp
    minted,         \* sum of the amounts of the Minted / MintedWithVesting events
    burned,         \* sum of the amounts of the Burned events
    created,        \* accounts named by a VestingCreated event
    last            \* the outcome of the call just made, NoCall once it was read

vars == <<owner, paused, balances, totalSupply, whitelist, frozen, vesting,
          now, minted, burned, created, last>>

\* struct Vesting, and its zero value (an unset mapping slot)
Vesting(total, released, start, duration) ==
    [total |-> total, released |-> released, start |-> start, duration |-> duration]

NoVesting == Vesting(0, 0, 0, 0)

\* The contract storage as one value, threaded through the functions.
Storage ==
    [owner |-> owner, paused |-> paused, balances |-> balances,
     totalSupply |-> totalSupply, whitelist |-> whitelist, frozen |-> frozen,
     vesting |-> vesting, minted |-> minted, burned |-> burned, created |-> created]

\* A function's outcome: the storage it leaves and its revert reason (OK if none).
\* A revert leaves the storage the call started from.
Revert(s, e) == [st |-> s, err |-> e]
Return(s) == [st |-> s, err |-> OK]

\* ------------------------------------------------------ library modifiers
\* OwnableUpgradeable.onlyOwner: owner() == _msgSender()
onlyOwner(s, caller) == caller = s.owner

\* PausableUpgradeable.whenNotPaused: !paused()
whenNotPaused(s) == ~s.paused

\* ERC20Upgradeable.balanceOf
balanceOf(s, user) == s.balances[user]

\* ------------------------------------------------------------ vesting logic
\* The value standing for a view call that reverts with an arithmetic panic.
PANIC == -1

\* Variant: the end of the schedule is not tested, the proportion is returned
\* at every time from start on (a division by zero panics).
vestedAmount_noEndClamp(s, user, t) ==
    LET v == s.vesting[user] IN
    IF v.total = 0 THEN balanceOf(s, user)
    ELSE IF t < v.start THEN 0
    ELSE IF v.total * (t - v.start) > U256Max THEN PANIC
    ELSE IF v.duration = 0 THEN PANIC
    ELSE (v.total * (t - v.start)) \div v.duration

\* Variant: the proportion is rounded up.
vestedAmount_roundsUp(s, user, t) ==
    LET v == s.vesting[user] IN
    IF v.total = 0 THEN balanceOf(s, user)
    ELSE IF t < v.start THEN 0
    ELSE IF v.start + v.duration > U64Max THEN PANIC
    ELSE IF t >= v.start + v.duration THEN v.total
    ELSE IF v.total * (t - v.start) > U256Max THEN PANIC
    ELSE (v.total * (t - v.start) + v.duration - 1) \div v.duration

\* vestedAmount(user) at block.timestamp = t.  v.start + v.duration is a checked
\* uint64 addition, v.total * elapsed a checked uint256 multiplication.
vestedAmount(s, user, t) ==
    LET v == s.vesting[user] IN
    IF v.total = 0 THEN balanceOf(s, user)
    ELSE IF t < v.start THEN 0
    ELSE IF v.start + v.duration > U64Max THEN PANIC
    ELSE IF t >= v.start + v.duration THEN v.total
    ELSE IF v.total * (t - v.start) > U256Max THEN PANIC
    ELSE (v.total * (t - v.start)) \div v.duration

\* Variant: the released amount is not subtracted.
available_ignoresReleased(s, user, t) ==
    LET v == s.vesting[user]
        vested == vestedAmount(s, user, t)
    IN  IF v.total = 0 THEN balanceOf(s, user)
        ELSE IF vested = PANIC THEN PANIC
        ELSE vested

\* available(user) at block.timestamp = t
available(s, user, t) ==
    LET v == s.vesting[user]
        vested == vestedAmount(s, user, t)
    IN  IF v.total = 0 THEN balanceOf(s, user)
        ELSE IF vested = PANIC THEN PANIC
        ELSE IF vested <= v.released THEN 0
        ELSE vested - v.released

\* --------------------------------------------------------- internal control
\* Variant: the whenNotPaused modifier is missing.
_beforeTokenTransfer_noPause(s, from, to, amount, t) ==
    IF from # ZERO /\ s.frozen[from] THEN ErrSenderFrozen
    ELSE IF from # ZERO /\ ~s.whitelist[from] THEN ErrSenderNotWhitelisted
    ELSE IF from # ZERO /\ s.vesting[from].total > 0 /\ available(s, from, t) = PANIC
         THEN ErrPanic
    ELSE IF from # ZERO /\ s.vesting[from].total > 0 /\ ~(amount <= available(s, from, t))
         THEN ErrAmountLocked
    ELSE IF to # ZERO /\ s.frozen[to] THEN ErrReceiverFrozen
    ELSE IF to # ZERO /\ ~s.whitelist[to] THEN ErrReceiverNotWhitelisted
    ELSE OK

\* Variant: on each side the whitelist requirement precedes the freeze one.
_beforeTokenTransfer_whitelistFirst(s, from, to, amount, t) ==
    IF ~whenNotPaused(s) THEN ErrPaused
    ELSE IF from # ZERO /\ ~s.whitelist[from] THEN ErrSenderNotWhitelisted
    ELSE IF from # ZERO /\ s.frozen[from] THEN ErrSenderFrozen
    ELSE IF from # ZERO /\ s.vesting[from].total > 0 /\ available(s, from, t) = PANIC
         THEN ErrPanic
    ELSE IF from # ZERO /\ s.vesting[from].total > 0 /\ ~(amount <= available(s, from, t))
         THEN ErrAmountLocked
    ELSE IF to # ZERO /\ ~s.whitelist[to] THEN ErrReceiverNotWhitelisted
    ELSE IF to # ZERO /\ s.frozen[to] THEN ErrReceiverFrozen
    ELSE OK

\* Variant: the vesting lock is applied to transfers only, a burn (to is the
\* zero address) passes it.
_beforeTokenTransfer_burnUnlocked(s, from, to, amount, t) ==
    IF ~whenNotPaused(s) THEN ErrPaused
    ELSE IF from # ZERO /\ s.frozen[from] THEN ErrSenderFrozen
    ELSE IF from # ZERO /\ ~s.whitelist[from] THEN ErrSenderNotWhitelisted
    ELSE IF from # ZERO /\ to # ZERO /\ s.vesting[from].total > 0
            /\ available(s, from, t) = PANIC
         THEN ErrPanic
    ELSE IF from # ZERO /\ to # ZERO /\ s.vesting[from].total > 0
            /\ ~(amount <= available(s, from, t))
         THEN ErrAmountLocked
    ELSE IF to # ZERO /\ s.frozen[to] THEN ErrReceiverFrozen
    ELSE IF to # ZERO /\ ~s.whitelist[to] THEN ErrReceiverNotWhitelisted
    ELSE OK

\* Variant: the "Receiver frozen" requirement is missing.
_beforeTokenTransfer_noReceiverFreeze(s, from, to, amount, t) ==
    IF ~whenNotPaused(s) THEN ErrPaused
    ELSE IF from # ZERO /\ s.frozen[from] THEN ErrSenderFrozen
    ELSE IF from # ZERO /\ ~s.whitelist[from] THEN ErrSenderNotWhitelisted
    ELSE IF from # ZERO /\ s.vesting[from].total > 0 /\ available(s, from, t) = PANIC
         THEN ErrPanic
    ELSE IF from # ZERO /\ s.vesting[from].total > 0 /\ ~(amount <= available(s, from, t))
         THEN ErrAmountLocked
    ELSE IF to # ZERO /\ ~s.whitelist[to] THEN ErrReceiverNotWhitelisted
    ELSE OK

\* Variant: the "Receiver not whitelisted" requirement is missing.
_beforeTokenTransfer_noReceiverWhitelist(s, from, to, amount, t) ==
    IF ~whenNotPaused(s) THEN ErrPaused
    ELSE IF from # ZERO /\ s.frozen[from] THEN ErrSenderFrozen
    ELSE IF from # ZERO /\ ~s.whitelist[from] THEN ErrSenderNotWhitelisted
    ELSE IF from # ZERO /\ s.vesting[from].total > 0 /\ available(s, from, t) = PANIC
         THEN ErrPanic
    ELSE IF from # ZERO /\ s.vesting[from].total > 0 /\ ~(amount <= available(s, from, t))
         THEN ErrAmountLocked
    ELSE IF to # ZERO /\ s.frozen[to] THEN ErrReceiverFrozen
    ELSE OK

\* Variant: the vesting lock is missing.
_beforeTokenTransfer_noLock(s, from, to, amount, t) ==
    IF ~whenNotPaused(s) THEN ErrPaused
    ELSE IF from # ZERO /\ s.frozen[from] THEN ErrSenderFrozen
    ELSE IF from # ZERO /\ ~s.whitelist[from] THEN ErrSenderNotWhitelisted
    ELSE IF to # ZERO /\ s.frozen[to] THEN ErrReceiverFrozen
    ELSE IF to # ZERO /\ ~s.whitelist[to] THEN ErrReceiverNotWhitelisted
    ELSE OK

\* _beforeTokenTransfer: the revert reason of the hook, OK when it passes.
_beforeTokenTransfer(s, from, to, amount, t) ==
    IF ~whenNotPaused(s) THEN ErrPaused
    ELSE IF from # ZERO /\ s.frozen[from] THEN ErrSenderFrozen
    ELSE IF from # ZERO /\ ~s.whitelist[from] THEN ErrSenderNotWhitelisted
    ELSE IF from # ZERO /\ s.vesting[from].total > 0 /\ available(s, from, t) = PANIC
         THEN ErrPanic
    ELSE IF from # ZERO /\ s.vesting[from].total > 0 /\ ~(amount <= available(s, from, t))
         THEN ErrAmountLocked
    ELSE IF to # ZERO /\ s.frozen[to] THEN ErrReceiverFrozen
    ELSE IF to # ZERO /\ ~s.whitelist[to] THEN ErrReceiverNotWhitelisted
    ELSE OK

\* Variant: the release is recorded on the receiving side.
_afterTokenTransfer_onReceiver(s, from, to, amount) ==
    IF to # ZERO /\ s.vesting[to].total > 0
    THEN LET v == s.vesting[to]
             sum == v.released + amount
         IN  IF sum > U256Max THEN Revert(s, ErrPanic)
             ELSE Return([s EXCEPT !.vesting[to].released =
                                       IF sum > v.total THEN v.total ELSE sum])
    ELSE Return(s)

\* Variant: the hook records nothing.
_afterTokenTransfer_noRecord(s, from, to, amount) == Return(s)

\* _afterTokenTransfer: tokens leaving `from` count as released, clamped to total.
_afterTokenTransfer(s, from, to, amount) ==
    IF from # ZERO /\ s.vesting[from].total > 0
    THEN LET v == s.vesting[from]
             sum == v.released + amount
         IN  IF sum > U256Max THEN Revert(s, ErrPanic)
             ELSE Return([s EXCEPT !.vesting[from].released =
                                       IF sum > v.total THEN v.total ELSE sum])
    ELSE Return(s)

\* ----------------------------------------------------- ERC20Upgradeable core
\* _mint(account, amount)
_mint(s, account, amount, t) ==
    IF account = ZERO THEN Revert(s, ErrMintToZero)
    ELSE LET pre == _beforeTokenTransfer(s, ZERO, account, amount, t) IN
         IF pre # OK THEN Revert(s, pre)
         ELSE IF s.totalSupply + amount > U256Max THEN Revert(s, ErrPanic)
         ELSE LET s1 == [s EXCEPT !.totalSupply = @ + amount,
                                  !.balances[account] = @ + amount]
                  post == _afterTokenTransfer(s1, ZERO, account, amount)
              IN  IF post.err # OK THEN Revert(s, post.err) ELSE post

\* _burn(account, amount)
_burn(s, account, amount, t) ==
    IF account = ZERO THEN Revert(s, ErrBurnFromZero)
    ELSE LET pre == _beforeTokenTransfer(s, account, ZERO, amount, t) IN
         IF pre # OK THEN Revert(s, pre)
         ELSE IF ~(s.balances[account] >= amount) THEN Revert(s, ErrBurnExceeds)
         ELSE LET s1 == [s EXCEPT !.balances[account] = @ - amount,
                                  !.totalSupply = @ - amount]
                  post == _afterTokenTransfer(s1, account, ZERO, amount)
              IN  IF post.err # OK THEN Revert(s, post.err) ELSE post

\* _transfer(from, to, amount); from is _msgSender() and never the zero address
_transfer(s, from, to, amount, t) ==
    IF to = ZERO THEN Revert(s, ErrTransferToZero)
    ELSE LET pre == _beforeTokenTransfer(s, from, to, amount, t) IN
         IF pre # OK THEN Revert(s, pre)
         ELSE IF ~(s.balances[from] >= amount) THEN Revert(s, ErrTransferExceeds)
         ELSE LET s1 == [s EXCEPT !.balances[from] = @ - amount]
                  s2 == [s1 EXCEPT !.balances[to] = @ + amount]
                  post == _afterTokenTransfer(s2, from, to, amount)
              IN  IF post.err # OK THEN Revert(s, post.err) ELSE post

\* ------------------------------------------------------ external functions
addToWhitelist(s, caller, user) ==
    IF ~onlyOwner(s, caller) THEN Revert(s, ErrNotOwner)
    ELSE Return([s EXCEPT !.whitelist[user] = TRUE])

removeFromWhitelist(s, caller, user) ==
    IF ~onlyOwner(s, caller) THEN Revert(s, ErrNotOwner)
    ELSE Return([s EXCEPT !.whitelist[user] = FALSE])

\* Variant: freezeAddress carries the whenNotPaused modifier.
freezeAddress_whenNotPaused(s, caller, user) ==
    IF ~onlyOwner(s, caller) THEN Revert(s, ErrNotOwner)
    ELSE IF ~whenNotPaused(s) THEN Revert(s, ErrPaused)
    ELSE Return([s EXCEPT !.frozen[user] = TRUE])

freezeAddress(s, caller, user) ==
    IF ~onlyOwner(s, caller) THEN Revert(s, ErrNotOwner)
    ELSE Return([s EXCEPT !.frozen[user] = TRUE])

\* Variant: the frozen flag is left as it is.
unfreezeAddress_flagKept(s, caller, user) ==
    IF ~onlyOwner(s, caller) THEN Revert(s, ErrNotOwner)
    ELSE Return(s)

unfreezeAddress(s, caller, user) ==
    IF ~onlyOwner(s, caller) THEN Revert(s, ErrNotOwner)
    ELSE Return([s EXCEPT !.frozen[user] = FALSE])

\* pause(): _pause() is itself whenNotPaused
pause(s, caller) ==
    IF ~onlyOwner(s, caller) THEN Revert(s, ErrNotOwner)
    ELSE IF s.paused THEN Revert(s, ErrPaused)
    ELSE Return([s EXCEPT !.paused = TRUE])

\* unpause(): _unpause() is itself whenPaused
unpause(s, caller) ==
    IF ~onlyOwner(s, caller) THEN Revert(s, ErrNotOwner)
    ELSE IF ~s.paused THEN Revert(s, ErrNotPaused)
    ELSE Return([s EXCEPT !.paused = FALSE])

mint(s, caller, to, amount, t) ==
    IF ~onlyOwner(s, caller) THEN Revert(s, ErrNotOwner)
    ELSE IF ~s.whitelist[to] THEN Revert(s, ErrNotWhitelisted)
    ELSE LET r == _mint(s, to, amount, t) IN
         IF r.err # OK THEN Revert(s, r.err)
         ELSE Return([r.st EXCEPT !.minted = @ + amount])

\* Variant: the schedule is attached and the events are emitted, but the
\* _mint call is missing.
mintWithVesting_noMint(s, caller, to, amount, duration, t) ==
    IF ~onlyOwner(s, caller) THEN Revert(s, ErrNotOwner)
    ELSE IF ~s.whitelist[to] THEN Revert(s, ErrNotWhitelisted)
    ELSE IF ~(s.vesting[to].total = 0) THEN Revert(s, ErrVestingExists)
    ELSE Return([s EXCEPT !.vesting[to] = Vesting(amount, 0, t, duration),
                          !.minted = @ + amount,
                          !.created = @ \cup {to}])

\* Variant: the struct is built with total and released interchanged.
mintWithVesting_swappedFields(s, caller, to, amount, duration, t) ==
    IF ~onlyOwner(s, caller) THEN Revert(s, ErrNotOwner)
    ELSE IF ~s.whitelist[to] THEN Revert(s, ErrNotWhitelisted)
    ELSE IF ~(s.vesting[to].total = 0) THEN Revert(s, ErrVestingExists)
    ELSE LET r == _mint(s, to, amount, t) IN
         IF r.err # OK THEN Revert(s, r.err)
         ELSE Return([r.st EXCEPT !.vesting[to] = Vesting(0, amount, t, duration),
                                  !.minted = @ + amount,
                                  !.created = @ \cup {to}])

\* Variant: the "Vesting exists" requirement is missing, a second vesting
\* mint overwrites the schedule.
mintWithVesting_overwrite(s, caller, to, amount, duration, t) ==
    IF ~onlyOwner(s, caller) THEN Revert(s, ErrNotOwner)
    ELSE IF ~s.whitelist[to] THEN Revert(s, ErrNotWhitelisted)
    ELSE LET r == _mint(s, to, amount, t) IN
         IF r.err # OK THEN Revert(s, r.err)
         ELSE Return([r.st EXCEPT !.vesting[to] = Vesting(amount, 0, t, duration),
                                  !.minted = @ + amount,
                                  !.created = @ \cup {to}])

\* Variant: the existence of a schedule is tested after the mint, and the
\* failure does not undo the mint.
mintWithVesting_lateCheck(s, caller, to, amount, duration, t) ==
    IF ~onlyOwner(s, caller) THEN Revert(s, ErrNotOwner)
    ELSE IF ~s.whitelist[to] THEN Revert(s, ErrNotWhitelisted)
    ELSE LET r == _mint(s, to, amount, t) IN
         IF r.err # OK THEN Revert(s, r.err)
         ELSE IF ~(s.vesting[to].total = 0) THEN Revert(r.st, ErrVestingExists)
         ELSE Return([r.st EXCEPT !.vesting[to] = Vesting(amount, 0, t, duration),
                                  !.minted = @ + amount,
                                  !.created = @ \cup {to}])

\* Variant: the schedule's start is left at zero, block.timestamp is not stored.
mintWithVesting_startUnset(s, caller, to, amount, duration, t) ==
    IF ~onlyOwner(s, caller) THEN Revert(s, ErrNotOwner)
    ELSE IF ~s.whitelist[to] THEN Revert(s, ErrNotWhitelisted)
    ELSE IF ~(s.vesting[to].total = 0) THEN Revert(s, ErrVestingExists)
    ELSE LET r == _mint(s, to, amount, t) IN
         IF r.err # OK THEN Revert(s, r.err)
         ELSE Return([r.st EXCEPT !.vesting[to] = Vesting(amount, 0, 0, duration),
                                  !.minted = @ + amount,
                                  !.created = @ \cup {to}])

mintWithVesting(s, caller, to, amount, duration, t) ==
    IF ~onlyOwner(s, caller) THEN Revert(s, ErrNotOwner)
    ELSE IF ~s.whitelist[to] THEN Revert(s, ErrNotWhitelisted)
    ELSE IF ~(s.vesting[to].total = 0) THEN Revert(s, ErrVestingExists)
    ELSE LET r == _mint(s, to, amount, t) IN
         IF r.err # OK THEN Revert(s, r.err)
         ELSE Return([r.st EXCEPT !.vesting[to] = Vesting(amount, 0, t, duration),
                                  !.minted = @ + amount,
                                  !.created = @ \cup {to}])

\* Variant: the onlyOwner modifier is missing.
burn_anyCaller(s, caller, from, amount, t) ==
    LET r == _burn(s, from, amount, t) IN
    IF r.err # OK THEN Revert(s, r.err)
    ELSE Return([r.st EXCEPT !.burned = @ + amount])

burn(s, caller, from, amount, t) ==
    IF ~onlyOwner(s, caller) THEN Revert(s, ErrNotOwner)
    ELSE LET r == _burn(s, from, amount, t) IN
         IF r.err # OK THEN Revert(s, r.err)
         ELSE Return([r.st EXCEPT !.burned = @ + amount])

\* ERC20Upgradeable.transfer(to, amount): _transfer(_msgSender(), to, amount)
transfer(s, caller, to, amount, t) == _transfer(s, caller, to, amount, t)

\* ------------------------------------------------------------ transitions
Call(op, caller, from, to, amount) ==
    [op |-> op, caller |-> caller, from |-> from, to |-> to, amount |-> amount]

NoCall ==
    [op |-> "none", caller |-> ZERO, from |-> ZERO, to |-> ZERO, amount |-> 0,
     err |-> OK]

\* The transaction commits the storage the function leaves and logs the call.
Commit(r, call) ==
    /\ owner' = r.st.owner
    /\ paused' = r.st.paused
    /\ balances' = r.st.balances
    /\ totalSupply' = r.st.totalSupply
    /\ whitelist' = r.st.whitelist
    /\ frozen' = r.st.frozen
    /\ vesting' = r.st.vesting
    /\ minted' = r.st.minted
    /\ burned' = r.st.burned
    /\ created' = r.st.created
    /\ last' = [op |-> call.op, caller |-> call.caller, from |-> call.from,
                to |-> call.to, amount |-> call.amount, err |-> r.err]
    /\ now' = now

\* No call is awaiting its caller: the next call can be made.
Idle == last = NoCall

\* initialize(): the deployer becomes owner and is whitelisted; nothing is paused.
Init ==
    /\ owner = Deployer
    /\ paused = FALSE
    /\ balances = [a \in Account |-> 0]
    /\ totalSupply = 0
    /\ whitelist = [a \in Account |-> a = Deployer]
    /\ frozen = [a \in Account |-> FALSE]
    /\ vesting = [a \in Account |-> NoVesting]
    /\ now = 1
    /\ minted = 0
    /\ burned = 0
    /\ created = {}
    /\ last = NoCall

AddToWhitelist(caller, user) ==
    /\ Idle
    /\ Commit(addToWhitelist(Storage, caller, user),
              Call("addToWhitelist", caller, ZERO, user, 0))

RemoveFromWhitelist(caller, user) ==
    /\ Idle
    /\ Commit(removeFromWhitelist(Storage, caller, user),
              Call("removeFromWhitelist", caller, ZERO, user, 0))

FreezeAddress(caller, user) ==
    /\ Idle
    /\ Commit(freezeAddress(Storage, caller, user),
              Call("freezeAddress", caller, ZERO, user, 0))

UnfreezeAddress(caller, user) ==
    /\ Idle
    /\ Commit(unfreezeAddress(Storage, caller, user),
              Call("unfreezeAddress", caller, ZERO, user, 0))

Pause(caller) ==
    /\ Idle
    /\ Commit(pause(Storage, caller), Call("pause", caller, ZERO, ZERO, 0))

Unpause(caller) ==
    /\ Idle
    /\ Commit(unpause(Storage, caller), Call("unpause", caller, ZERO, ZERO, 0))

\* Exploration stops minting once MaxMinted units were ever issued.
Mint(caller, to, amount) ==
    /\ Idle
    /\ LET r == mint(Storage, caller, to, amount, now) IN
       /\ r.err = OK => minted + amount <= MaxMinted
       /\ Commit(r, Call("mint", caller, ZERO, to, amount))

MintWithVesting(caller, to, amount, duration) ==
    /\ Idle
    /\ LET r == mintWithVesting(Storage, caller, to, amount, duration, now) IN
       /\ r.err = OK => minted + amount <= MaxMinted
       /\ Commit(r, Call("mintWithVesting", caller, ZERO, to, amount))

Burn(caller, from, amount) ==
    /\ Idle
    /\ Commit(burn(Storage, caller, from, amount, now),
              Call("burn", caller, from, ZERO, amount))

Transfer(caller, to, amount) ==
    /\ Idle
    /\ Commit(transfer(Storage, caller, to, amount, now),
              Call("transfer", caller, caller, to, amount))

\* A later block: block.timestamp advances.
Tick ==
    /\ Idle
    /\ now < MaxTime
    /\ now' = now + 1
    /\ UNCHANGED <<owner, paused, balances, totalSupply, whitelist, frozen,
                   vesting, minted, burned, created, last>>

\* The caller has read the outcome of its call.
Settle ==
    /\ ~Idle
    /\ last' = NoCall
    /\ UNCHANGED <<owner, paused, balances, totalSupply, whitelist, frozen,
                   vesting, now, minted, burned, created>>

Next ==
    \/ \E c \in Holders, u \in Holders : AddToWhitelist(c, u)
    \/ \E c \in Holders, u \in Holders : RemoveFromWhitelist(c, u)
    \/ \E c \in Holders, u \in Holders : FreezeAddress(c, u)
    \/ \E c \in Holders, u \in Holders : UnfreezeAddress(c, u)
    \/ \E c \in Holders : Pause(c)
    \/ \E c \in Holders : Unpause(c)
    \/ \E c \in Holders, u \in Holders, n \in Amounts : Mint(c, u, n)
    \/ \E c \in Holders, u \in Beneficiaries, n \in Amounts, d \in Durations :
           MintWithVesting(c, u, n, d)
    \/ \E c \in Holders, u \in Holders, n \in Amounts : Burn(c, u, n)
    \/ \E c \in Holders, u \in Holders, n \in Amounts : Transfer(c, u, n)
    \/ Tick
    \/ Settle

Spec == Init /\ [][Next]_vars

\* ---------------------------------------- the vesting computation by itself
\* A second specification for the claims about vestedAmount() and
\* available() as functions of the schedule and the time.  It starts from
\* the ledgers in which the owner has whitelisted alice and attached one
\* schedule to her, for every total in 1..MaxTotal and every uint64 duration,
\* and goes on with transfers, burns and the passing of time.
MaxTotal == 4

Totals == 1..MaxTotal
VestDurations == 0..U64Max
\* the values of block.timestamp a view call can be made at
Times == 0..U64Max

\* The storage initialize() leaves.
Deployed ==
    [owner |-> Deployer, paused |-> FALSE, balances |-> [a \in Account |-> 0],
     totalSupply |-> 0, whitelist |-> [a \in Account |-> a = Deployer],
     frozen |-> [a \in Account |-> FALSE],
     vesting |-> [a \in Account |-> NoVesting],
     minted |-> 0, burned |-> 0, created |-> {}]

\* initialize(), addToWhitelist(alice), mintWithVesting(alice, total, duration)
\* in the first block.
VestInit ==
    /\ now = 1
    /\ last = NoCall
    /\ \E total \in Totals, duration \in VestDurations :
         LET s1 == addToWhitelist(Deployed, Deployer, "alice")
             r == mintWithVesting(s1.st, Deployer, "alice", total, duration, now)
         IN  /\ s1.err = OK /\ r.err = OK
             /\ owner = r.st.owner
             /\ paused = r.st.paused
             /\ balances = r.st.balances
             /\ totalSupply = r.st.totalSupply
             /\ whitelist = r.st.whitelist
             /\ frozen = r.st.frozen
             /\ vesting = r.st.vesting
             /\ minted = r.st.minted
             /\ burned = r.st.burned
             /\ created = r.st.created

VestNext ==
    \/ \E c \in Holders, u \in Holders, n \in Amounts : Transfer(c, u, n)
    \/ \E c \in Holders, u \in Holders, n \in Amounts : Burn(c, u, n)
    \/ Tick
    \/ Settle

VestingSpec == VestInit /\ [][VestNext]_vars

\* ======================================================================
\* Properties
\* ======================================================================

\* Steps are told apart by the outcome they leave: a call step leaves
\* last' # NoCall, naming the operation, the caller and the arguments.
BalanceOps == {"mint", "mintWithVesting", "burn", "transfer"}
OwnerOnlyOps == {"addToWhitelist", "removeFromWhitelist", "freezeAddress",
                 "unfreezeAddress", "pause", "unpause", "mint",
                 "mintWithVesting", "burn"}

RECURSIVE SumOver(_, _)
SumOver(f, S) ==
    IF S = {} THEN 0
    ELSE LET x == CHOOSE y \in S : TRUE IN f[x] + SumOver(f, S \ {x})

\* ---------------------------------------------------------------------
\* C1: in every reachable state totalSupply equals the sum of all holder
\* balances and equals the amount minted minus the amount burned.
C1_SupplyConserved ==
    /\ totalSupply = SumOver(balances, Account)
    /\ totalSupply = minted - burned

\* a burn has succeeded after mints, with units still in circulation
C1_Witness ==
    /\ last.op = "burn" /\ last.err = OK /\ last.amount > 0
    /\ burned > 0 /\ totalSupply > 0

\* ---------------------------------------------------------------------
\* C2: released <= total in every reachable state, for every vesting slot
\* (so in particular for every holder that has a schedule).
C2_ReleasedWithinTotal ==
    \A h \in Holders : vesting[h].released <= vesting[h].total

\* a schedule fully consumed by an outbound movement of its holder
C2_Witness ==
    /\ last.op \in {"transfer", "burn"} /\ last.err = OK /\ last.amount > 0
    /\ vesting[last.from].total > 0
    /\ vesting[last.from].released = vesting[last.from].total

\* ---------------------------------------------------------------------
\* The ledger a rejected or paused call must leave alone.
BalancesAndSchedulesUnchanged == UNCHANGED <<balances, totalSupply, vesting>>

\* The revert reason of a balance operation made while paused: the checks
\* that run before the whenNotPaused modifier of _beforeTokenTransfer.
PausedReason(call) ==
    IF call.op \in {"mint", "mintWithVesting", "burn"} /\ call.caller # owner
    THEN ErrNotOwner
    ELSE IF call.op \in {"mint", "mintWithVesting"} /\ ~whitelist[call.to]
    THEN ErrNotWhitelisted
    ELSE IF call.op = "mintWithVesting" /\ vesting[call.to].total # 0
    THEN ErrVestingExists
    ELSE ErrPaused

\* C3 as stated: while paused, every mint, mintWithVesting, burn and transfer
\* (the owner-only ones called by the owner) fails with SystemPaused whatever
\* the whitelist, freeze and vesting state, and changes no balance,
\* totalSupply or schedule.
C3_Original ==
    [][(paused /\ last'.op \in BalanceOps
           /\ (last'.op \in OwnerOnlyOps => last'.caller = owner))
        => (last'.err = ErrPaused /\ BalancesAndSchedulesUnchanged)]_vars

\* C3 amended: while paused, every mint, mintWithVesting, burn and transfer
\* fails and changes no balance, totalSupply or schedule.  The error is
\* SystemPaused for every transfer and every burn by the owner whatever the
\* whitelist, freeze and vesting state, and for a mint or mintWithVesting by
\* the owner to a whitelisted holder (without a schedule, for
\* mintWithVesting); the requirements that precede the pause check report
\* first: Unauthorized for another caller, NotWhitelisted for a mint or
\* mintWithVesting to a non-whitelisted holder, VestingAlreadyExists for a
\* mintWithVesting to a whitelisted holder that has a schedule.
C3_PausedRejects ==
    [][(paused /\ last'.op \in BalanceOps)
        => /\ last'.err # OK
           /\ last'.err = PausedReason(last')
           /\ BalancesAndSchedulesUnchanged]_vars

\* a transfer rejected with SystemPaused although its sender is frozen and
\* holds a schedule and its receiver is not whitelisted
C3_Witness ==
    /\ paused
    /\ last.op = "transfer" /\ last.err = ErrPaused
    /\ frozen[last.from] /\ vesting[last.from].total > 0
    /\ ~whitelist[last.to]

\* ---------------------------------------------------------------------
\* The vesting lock of a sender: it holds a schedule and the amount
\* exceeds what available() returns.
HasSchedule(h) == vesting[h].total > 0
AvailableNow(h) == available(Storage, h, now)
Overflows(h) == HasSchedule(h) /\ AvailableNow(h) = PANIC
Locked(h, amount) == HasSchedule(h) /\ ~Overflows(h) /\ amount > AvailableNow(h)

\* C4 as stated: the error of a transfer is the first violation in the order
\* paused, sender whitelist, sender freeze, sender vesting lock, receiver
\* whitelist, receiver freeze.
C4_OrderAsStated(call) ==
    IF paused THEN ErrPaused
    ELSE IF ~whitelist[call.from] THEN ErrSenderNotWhitelisted
    ELSE IF frozen[call.from] THEN ErrSenderFrozen
    ELSE IF Locked(call.from, call.amount) THEN ErrAmountLocked
    ELSE IF ~whitelist[call.to] THEN ErrReceiverNotWhitelisted
    ELSE IF frozen[call.to] THEN ErrReceiverFrozen
    ELSE "none"

C4_Original ==
    [][(last'.op = "transfer" /\ ~Overflows(last'.from)
           /\ C4_OrderAsStated(last') # "none")
        => last'.err = C4_OrderAsStated(last')]_vars

\* C4 amended: the error of a transfer is the first violation in the order
\* paused, sender freeze, sender whitelist, sender vesting lock, receiver
\* freeze, receiver whitelist (on each side the freeze check precedes the
\* whitelist check).  A sender, or a receiver, that is both frozen and not
\* whitelisted is reported as AddressFrozen.  Where start + duration of the
\* sender's schedule overflows, the lock check reverts with an arithmetic
\* panic in the place of AmountLocked.
C4_OrderInCode(call) ==
    IF paused THEN ErrPaused
    ELSE IF frozen[call.from] THEN ErrSenderFrozen
    ELSE IF ~whitelist[call.from] THEN ErrSenderNotWhitelisted
    ELSE IF Overflows(call.from) THEN ErrPanic
    ELSE IF Locked(call.from, call.amount) THEN ErrAmountLocked
    ELSE IF frozen[call.to] THEN ErrReceiverFrozen
    ELSE IF ~whitelist[call.to] THEN ErrReceiverNotWhitelisted
    ELSE "none"

C4_FirstViolationWins ==
    [][last'.op = "transfer"
        => /\ C4_OrderInCode(last') # "none"
                => last'.err = C4_OrderInCode(last')
           /\ (~paused /\ frozen[last'.from] /\ ~whitelist[last'.from])
                => last'.err = ErrSenderFrozen
           /\ (~paused /\ ~frozen[last'.from] /\ whitelist[last'.from]
                 /\ ~HasSchedule(last'.from)
                 /\ frozen[last'.to] /\ ~whitelist[last'.to])
                => last'.err = ErrReceiverFrozen
           /\ C4_OrderInCode(last') = "none"
                => last'.err \in {OK, ErrTransferExceeds}]_vars

\* a transfer whose sender is both frozen and not whitelisted was rejected
C4_Witness ==
    /\ last.op = "transfer" /\ last.err = ErrSenderFrozen
    /\ ~paused /\ frozen[last.from] /\ ~whitelist[last.from]

\* ---------------------------------------------------------------------
\* C5 as stated: a burn by the owner from a whitelisted, unfrozen holder with
\* a schedule and balance >= amount succeeds (while not paused), whatever
\* available() returns, and decreases balance and totalSupply by amount.
C5_Original ==
    [][(last'.op = "burn" /\ last'.caller = owner /\ ~paused
           /\ whitelist[last'.from] /\ ~frozen[last'.from]
           /\ HasSchedule(last'.from)
           /\ balances[last'.from] >= last'.amount)
        => /\ last'.err = OK
           /\ balances'[last'.from] = balances[last'.from] - last'.amount
           /\ totalSupply' = totalSupply - last'.amount]_vars

\* C5 amended: burn(from, amount) by the owner is gated by available() as a
\* transfer is.  For a whitelisted, unfrozen holder with a schedule, while
\* not paused: if amount > available(from, now) the burn fails with
\* AmountLocked (e.g. right after mintWithVesting) and changes nothing; if
\* amount <= available(from, now) it succeeds, decreasing balance and
\* totalSupply by amount and counting amount as released; where available()
\* overflows it fails with an arithmetic panic.  For such a holder without a
\* schedule it fails with InsufficientBalance exactly when amount exceeds
\* the raw balance and succeeds otherwise.
C5_BurnGatedByAvailable ==
    [][(last'.op = "burn" /\ last'.caller = owner /\ ~paused
           /\ whitelist[last'.from] /\ ~frozen[last'.from])
        => LET h == last'.from
               n == last'.amount
           IN  /\ Locked(h, n)
                    => last'.err = ErrAmountLocked /\ BalancesAndSchedulesUnchanged
               /\ Overflows(h)
                    => last'.err = ErrPanic /\ BalancesAndSchedulesUnchanged
               /\ (HasSchedule(h) /\ ~Overflows(h) /\ n <= AvailableNow(h))
                    => /\ last'.err = OK
                       /\ balances'[h] = balances[h] - n
                       /\ totalSupply' = totalSupply - n
                       /\ vesting'[h].released = vesting[h].released + n
               /\ (~HasSchedule(h) /\ n > balances[h])
                    => last'.err = ErrBurnExceeds /\ BalancesAndSchedulesUnchanged
               /\ (~HasSchedule(h) /\ n <= balances[h])
                    => /\ last'.err = OK
                       /\ balances'[h] = balances[h] - n
                       /\ totalSupply' = totalSupply - n]_vars

\* a burn of units the holder owns was rejected as locked by the schedule
C5_Witness ==
    /\ last.op = "burn" /\ last.caller = owner /\ last.err = ErrAmountLocked
    /\ ~paused /\ whitelist[last.from] /\ ~frozen[last.from]
    /\ balances[last.from] >= last.amount

Terms(v) == <<v.total, v.start, v.duration>>

C7_TransferUnderVesting ==
    [][(last'.op = "transfer" /\ HasSchedule(last'.from) /\ ~Overflows(last'.from))
        => LET f == last'.from
               n == last'.amount
           IN  /\ n > AvailableNow(f)
                    => /\ last'.err # OK
                       /\ (~paused /\ ~frozen[f] /\ whitelist[f])
                            => last'.err = ErrAmountLocked
               /\ last'.err = OK
                    => /\ balances' = [[balances EXCEPT ![f] = @ - n]
                                          EXCEPT ![last'.to] = @ + n]
                       /\ vesting'[f].released = vesting[f].released + n
                       /\ available(Storage', f, now) = AvailableNow(f) - n]_vars

\* half of a schedule of 2 is vested and 1 unit was transferred out to
\* another holder
C7_Witness ==
    /\ last.op = "transfer" /\ last.err = OK /\ last.amount = 1
    /\ last.to # last.from
    /\ vesting[last.from].total = 2 /\ vesting[last.from].released = 1
    /\ now = vesting[last.from].start + 1
    /\ balances[last.to] >= 1

\* ---------------------------------------------------------------------
\* C8: a rejected call leaves the whole ledger unchanged: balances,
\* totalSupply, whitelist and freeze flags, the paused flag, the owner, every
\* schedule and the emitted events.
C8_RejectionChangesNothing ==
    [][last'.err # OK
        => UNCHANGED <<owner, paused, balances, totalSupply, whitelist, frozen,
                       vesting, minted, burned, created>>]_vars

\* a vesting mint that passed its own requirements and was rejected inside
\* the mint: nothing was issued and no schedule attached
C8_Witness ==
    /\ last.op = "mintWithVesting" /\ last.err = ErrReceiverFrozen
    /\ last.amount > 0
    /\ last.to \notin created
    /\ vesting[last.to] = NoVesting

\* ---------------------------------------------------------------------
\* C9: an owner-only operation called by anyone else fails with
\* Unauthorized, and totalSupply, the whitelist and freeze flags, the paused
\* flag and the set of schedules (total, start, duration of every slot)
\* change only in successful steps of an owner-only operation called by the
\* owner.
C9_OwnerOnly ==
    [][/\ (last'.op \in OwnerOnlyOps /\ last'.caller # owner)
            => last'.err = ErrNotOwner
       /\ (\/ ~UNCHANGED <<totalSupply, whitelist, frozen, paused, owner>>
           \/ \E h \in Holders : Terms(vesting'[h]) # Terms(vesting[h]))
            => (last'.op \in OwnerOnlyOps /\ last'.caller = owner
                /\ last'.err = OK)]_vars

\* a holder other than the owner tried to burn units it owns and may move
C9_Witness ==
    /\ last.op = "burn" /\ last.caller # owner /\ last.err = ErrNotOwner
    /\ last.from = last.caller
    /\ last.amount > 0 /\ balances[last.from] >= last.amount
    /\ ~paused /\ whitelist[last.from] /\ ~frozen[last.from]
    /\ ~HasSchedule(last.from)

\* ---------------------------------------------------------------------
\* C10: while a holder is frozen every transfer from it, transfer to it,
\* mint to it and burn from it is rejected, so its balance changes in no
\* step taken while it is frozen; a transfer from a frozen holder made while
\* not paused fails with AddressFrozen ("Sender frozen"), also when the
\* holder is whitelisted, has no schedule and owns the amount.
C10_FrozenBalanceFixed ==
    [][/\ \A h \in Holders : frozen[h] => balances'[h] = balances[h]
       /\ (last'.op = "transfer" /\ (frozen[last'.from] \/ frozen[last'.to]))
            => last'.err # OK
       /\ (last'.op \in {"mint", "mintWithVesting"} /\ frozen[last'.to])
            => last'.err # OK
       /\ (last'.op = "burn" /\ frozen[last'.from])
            => last'.err # OK
       /\ (last'.op = "transfer" /\ ~paused /\ frozen[last'.from])
            => last'.err = ErrSenderFrozen]_vars

\* a frozen, whitelisted holder without a schedule was refused a transfer of
\* units it owns to a whitelisted, unfrozen receiver
C10_Witness ==
    /\ last.op = "transfer" /\ last.err = ErrSenderFrozen
    /\ frozen[last.from] /\ whitelist[last.from] /\ ~HasSchedule(last.from)
    /\ last.amount > 0 /\ balances[last.from] >= last.amount
    /\ whitelist[last.to] /\ ~frozen[last.to] /\ last.to # last.from

C12_AdminWhilePaused ==
    [][(paused /\ last'.caller = owner)
        => /\ last'.op = "addToWhitelist"
                => /\ last'.err = OK
                   /\ whitelist' = [whitelist EXCEPT ![last'.to] = TRUE]
                   /\ UNCHANGED <<frozen, paused>>
           /\ last'.op = "removeFromWhitelist"
                => /\ last'.err = OK
                   /\ whitelist' = [whitelist EXCEPT ![last'.to] = FALSE]
                   /\ UNCHANGED <<frozen, paused>>
           /\ last'.op = "freezeAddress"
                => /\ last'.err = OK
                   /\ frozen' = [frozen EXCEPT ![last'.to] = TRUE]
                   /\ UNCHANGED <<whitelist, paused>>
           /\ last'.op = "unfreezeAddress"
                => /\ last'.err = OK
                   /\ frozen' = [frozen EXCEPT ![last'.to] = FALSE]
                   /\ UNCHANGED <<whitelist, paused>>
           /\ last'.op = "unpause"
                => /\ last'.err = OK
                   /\ paused' = FALSE
                   /\ UNCHANGED <<whitelist, frozen>>
           /\ last'.op \in {"addToWhitelist", "removeFromWhitelist",
                             "freezeAddress", "unfreezeAddress", "unpause"}
                => UNCHANGED <<owner, balances, totalSupply, vesting>>]_vars

\* a holder that owns units and was not frozen was frozen while the ledger
\* was paused
C12_Witness ==
    /\ paused
    /\ last.op = "freezeAddress" /\ last.err = OK
    /\ frozen[last.to] /\ balances[last.to] > 0

\* ---------------------------------------------------------------------
\* C13: pause() followed by unpause(), and freezeAddress(h) followed by
\* unfreezeAddress(h) for a holder h that was not frozen, leave the ledger as
\* it was before the pair: after a successful pause (freeze) step, unpause
\* (unfreeze of the same holder) succeeds and yields the storage the step
\* started from, so every transfer has at the same time the outcome it had
\* before the pair, while in between every transfer (every transfer from h)
\* is rejected.
C13_RoundTrips ==
    [][/\ (last'.op = "pause" /\ last'.err = OK)
            => LET back == unpause(Storage', owner)
               IN  /\ ~paused /\ paused'
                   /\ back.err = OK
                   /\ back.st = Storage
                   /\ \A c \in Holders, u \in Holders, n \in Amounts :
                        /\ transfer(Storage', c, u, n, now).err = ErrPaused
                        /\ transfer(back.st, c, u, n, now).err
                             = transfer(Storage, c, u, n, now).err
       /\ (last'.op = "freezeAddress" /\ last'.err = OK /\ ~frozen[last'.to])
            => LET h == last'.to
                   back == unfreezeAddress(Storage', owner, h)
               IN  /\ frozen'[h]
                   /\ back.err = OK
                   /\ back.st = Storage
                   /\ \A u \in Holders, n \in Amounts :
                        /\ transfer(Storage', h, u, n, now).err
                             = (IF paused THEN ErrPaused ELSE ErrSenderFrozen)
                        /\ transfer(back.st, h, u, n, now).err
                             = transfer(Storage, h, u, n, now).err]_vars

\* a whitelisted holder with a schedule, able to transfer one available unit,
\* has just been frozen; unfreezing it lets that transfer succeed again
C13_Witness ==
    /\ last.op = "freezeAddress" /\ last.err = OK
    /\ ~paused /\ frozen[last.to] /\ HasSchedule(last.to)
    /\ AvailableNow(last.to) >= 1
    /\ transfer(Storage, last.to, Deployer, 1, now).err = ErrSenderFrozen
    /\ transfer(unfreezeAddress(Storage, owner, last.to).st,
                last.to, Deployer, 1, now).err = OK

\* ---------------------------------------------------------------------
\* vestedAmount(h) read at block.timestamp = t in the current ledger
VestedAt(h, t) == vestedAmount(Storage, h, t)

\* C14: for a holder with a schedule, vestedAmount(h, t1) <= vestedAmount(h, t2)
\* for all t1 <= t2 at which the call returns, and the value returned lies
\* between 0 and total.  (total, start and duration of a schedule never
\* change, see C6; the times at which the call reverts are those of C17.)
C14_VestedMonotone ==
    \A h \in Holders :
        HasSchedule(h) =>
            \A t1 \in Times, t2 \in Times :
                (t1 <= t2 /\ VestedAt(h, t1) # PANIC /\ VestedAt(h, t2) # PANIC)
                    => /\ 0 <= VestedAt(h, t1)
                       /\ VestedAt(h, t1) <= VestedAt(h, t2)
                       /\ VestedAt(h, t2) <= vesting[h].total

\* a schedule on its way: something is vested now, more than one block
\* earlier and less than the total, which is vested at the end
C14_Witness ==
    \E h \in Holders :
        /\ HasSchedule(h)
        /\ now > vesting[h].start
        /\ VestedAt(h, now - 1) # PANIC /\ VestedAt(h, now) # PANIC
        /\ VestedAt(h, now - 1) < VestedAt(h, now)
        /\ VestedAt(h, now) < vesting[h].total
        /\ VestedAt(h, vesting[h].start + vesting[h].duration) = vesting[h].total

\* ---------------------------------------------------------------------
\* floor(total * elapsed / duration), in unbounded arithmetic
FloorShare(total, elapsed, duration) == (total * elapsed) \div duration

\* C15 as stated: for every schedule, duration = 0 included, vestedAmount
\* returns 0 at t = start, total at t = start + duration and
\* floor(total * (t - start) / duration) at every t strictly between.
C15_Original ==
    \A h \in Holders :
        HasSchedule(h) =>
            LET v == vesting[h] IN
            /\ VestedAt(h, v.start) = 0
            /\ v.start + v.duration \in Times
                 => VestedAt(h, v.start + v.duration) = v.total
            /\ \A t \in Times :
                 (v.start < t /\ t < v.start + v.duration)
                    => VestedAt(h, t) = FloorShare(v.total, t - v.start, v.duration)

\* C15 amended: for every schedule with duration > 0 whose end
\* start + duration is a uint64, vestedAmount returns 0 at t = start, total
\* at t = start + duration, and at every t strictly between
\* floor(total * (t - start) / duration) when total * (t - start) is a
\* uint256, reverting with an arithmetic panic when it is not.  For a
\* schedule with duration = 0, start and start + duration are the same time
\* and vestedAmount returns total there.  For a schedule whose
\* start + duration exceeds the uint64 range vestedAmount reverts with an
\* arithmetic panic at t = start and at every later time.
C15_BoundaryValues ==
    \A h \in Holders :
        HasSchedule(h) =>
            LET v == vesting[h]
                end == v.start + v.duration
            IN
            /\ (v.duration > 0 /\ end <= U64Max)
                 => /\ VestedAt(h, v.start) = 0
                    /\ VestedAt(h, end) = v.total
                    /\ \A t \in Times :
                         (v.start < t /\ t < end)
                            => VestedAt(h, t) =
                                 IF v.total * (t - v.start) <= U256Max
                                 THEN FloorShare(v.total, t - v.start, v.duration)
                                 ELSE PANIC
            /\ v.duration = 0 => VestedAt(h, v.start) = v.total
            /\ end > U64Max
                 => \A t \in Times : t >= v.start => VestedAt(h, t) = PANIC

\* strictly inside a schedule, at a time where the proportion is not a whole
\* number and is rounded down
C15_Witness ==
    \E h \in Holders :
        /\ HasSchedule(h)
        /\ vesting[h].start < now
        /\ now < vesting[h].start + vesting[h].duration
        /\ vesting[h].start + vesting[h].duration <= U64Max
        /\ (vesting[h].total * (now - vesting[h].start)) % vesting[h].duration # 0
        /\ VestedAt(h, now)
             = FloorShare(vesting[h].total, now - vesting[h].start, vesting[h].duration)

\* ---------------------------------------------------------------------
Max0(x) == IF x > 0 THEN x ELSE 0

\* the holder was just given its schedule by the call that `last` reports
JustVested(h) ==
    last.op = "mintWithVesting" /\ last.err = OK /\ last.to = h

\* the time halfway through the schedule v
Halfway(v, t) == 2 * (t - v.start) = v.duration

\* C16 as stated: in every reachable state available(h) is the full balance
\* of a holder without a schedule and max(0, vestedAmount(h) - released)
\* otherwise; for a schedule with duration > 0, available is 0 right after
\* mintWithVesting and, if nothing was moved out, strictly between 0 and
\* amount halfway and equal to amount at start + duration.
C16_Original ==
    \A h \in Holders :
        /\ ~HasSchedule(h) => AvailableNow(h) = balances[h]
        /\ HasSchedule(h)
             => AvailableNow(h) = Max0(VestedAt(h, now) - vesting[h].released)
        /\ (HasSchedule(h) /\ vesting[h].duration > 0)
             => LET v == vesting[h] IN
                /\ JustVested(h) => AvailableNow(h) = 0
                /\ (v.released = 0 /\ Halfway(v, now))
                     => (0 < AvailableNow(h) /\ AvailableNow(h) < v.total)
                /\ (v.released = 0 /\ now = v.start + v.duration)
                     => AvailableNow(h) = v.total

\* C16 amended: in every reachable state available(h) is the full balance of
\* a holder without a schedule (also after a zero-amount mintWithVesting) and
\* max(0, vestedAmount(h) - released) otherwise, reverting where vestedAmount
\* reverts.  For a schedule with duration > 0 whose start + duration fits
\* the 64-bit width: available is 0 right after mintWithVesting; if nothing
\* was moved out it is floor(amount / 2) halfway, which is below amount and
\* is above 0 only for amount >= 2 (it reverts if amount * elapsed does not
\* fit 256 bits), and it is amount at start + duration and later.  For a
\* schedule whose start + duration exceeds the 64-bit width available
\* reverts with an arithmetic panic from mintWithVesting on.
C16_AvailableDefinition ==
    \A h \in Holders :
        LET v == vesting[h]
            a == AvailableNow(h)
            vested == VestedAt(h, now)
            fits == v.start + v.duration <= U64Max
        IN
        /\ ~HasSchedule(h) => a = balances[h]
        /\ HasSchedule(h)
             => a = IF vested = PANIC THEN PANIC ELSE Max0(vested - v.released)
        /\ (HasSchedule(h) /\ v.duration > 0)
             => /\ now >= v.start
                /\ ~fits => a = PANIC
                /\ (fits /\ JustVested(h)) => a = 0
                /\ (fits /\ v.released = 0 /\ Halfway(v, now))
                     => a = IF v.total * (now - v.start) > U256Max THEN PANIC
                            ELSE v.total \div 2
                /\ (fits /\ v.released = 0 /\ now >= v.start + v.duration)
                     => a = v.total

\* a holder that received a zero-amount mintWithVesting and then units by a
\* plain mint: it reads as having no schedule and all it owns is available
C16_Witness ==
    \E h \in Holders :
        /\ h \in created /\ ~HasSchedule(h)
        /\ vesting[h].start > 0
        /\ balances[h] > 0
        /\ AvailableNow(h) = balances[h]

\* ---------------------------------------------------------------------
\* C17: the vesting computation never fails because of integer width: for
\* every schedule and every time vestedAmount returns a value, the exact
\* floor(total * (t - start) / duration) inside the schedule, and no
\* transfer or burn reverts with an arithmetic panic.
C17_Original ==
    /\ \A h \in Holders :
         HasSchedule(h) =>
            LET v == vesting[h] IN
            \A t \in Times :
                /\ VestedAt(h, t) # PANIC
                /\ (v.start <= t /\ t < v.start + v.duration)
                     => VestedAt(h, t) = FloorShare(v.total, t - v.start, v.duration)
    /\ last.err # ErrPanic

\* ---------------------------------------------------------------------
\* C18: a mint to, or a transfer from another holder into, a holder that has
\* a schedule leaves total, released, start and duration of that schedule
\* unchanged, and released of a schedule changes only in successful steps in
\* which its holder is the sender of a transfer (a transfer to itself
\* included) or the target of a burn.
C18_InboundLeavesSchedule ==
    [][\A h \in Holders :
         HasSchedule(h) =>
            /\ (last'.op = "mint" /\ last'.to = h) => vesting'[h] = vesting[h]
            /\ (last'.op = "transfer" /\ last'.to = h /\ last'.from # h)
                 => vesting'[h] = vesting[h]
            /\ vesting'[h].released # vesting[h].released
                 => /\ last'.op \in {"transfer", "burn"}
                    /\ last'.from = h
                    /\ last'.err = OK]_vars

\* a holder with a schedule received units from another holder and now owns
\* more than what its schedule has left
C18_Witness ==
    /\ last.op = "transfer" /\ last.err = OK /\ last.amount > 0
    /\ last.to # last.from
    /\ HasSchedule(last.to)
    /\ balances[last.to] > vesting[last.to].total - vesting[last.to].released

\* ---------------------------------------------------------------------
\* C19: in every reachable state, for every holder and every time at which
\* available(h) returns, available(h) <= balanceOf(h); and no transfer or
\* burn from a holder with a schedule is rejected for exceeding the balance
\* (the vesting lock, which precedes the balance test, has rejected it).
C19_AvailableWithinBalance ==
    /\ \A h \in Holders, t \in Times :
         LET a == available(Storage, h, t) IN
         a # PANIC => (0 <= a /\ a <= balances[h])
    /\ (last.op \in {"transfer", "burn"} /\ HasSchedule(last.from))
         => last.err \notin {ErrTransferExceeds, ErrBurnExceeds}

\* a holder with a schedule has moved part of it out and may move out all
\* it still owns: available equals the balance
C19_Witness ==
    /\ last.op = "transfer" /\ last.err = OK /\ last.amount > 0
    /\ last.to # last.from
    /\ HasSchedule(last.from)
    /\ balances[last.from] > 0
    /\ AvailableNow(last.from) = balances[last.from]

\* ---------------------------------------------------------------------
\* what a holder owns beyond the part of its schedule not yet moved out
Excess(bal, v) == bal - (v.total - v.released)

\* C20: for a holder with a schedule released is the exact sum of the amounts
\* moved out of it since the schedule was created.  Step by step: the
\* schedule is created with released = 0; every successful transfer from the
\* holder (to itself included) and every successful burn from it adds
\* exactly amount to released, which stays within total, so the clamp is
\* never applied; no other step changes released.  What the holder owns
\* beyond total - released (units from a plain mint or an inbound transfer)
\* is never negative and never decreases: those units do not leave.
C20_ReleasedIsOutflow ==
    [][/\ (last'.op = "mintWithVesting" /\ last'.err = OK)
            => vesting'[last'.to].released = 0
       /\ (last'.op \in {"transfer", "burn"} /\ last'.err = OK
             /\ HasSchedule(last'.from))
            => /\ vesting[last'.from].released + last'.amount
                    <= vesting[last'.from].total
               /\ vesting'[last'.from].released
                    = vesting[last'.from].released + last'.amount
       /\ \A h \in Holders :
            HasSchedule(h) =>
               /\ vesting'[h].released # vesting[h].released
                    => /\ last'.op \in {"transfer", "burn"}
                       /\ last'.from = h /\ last'.err = OK
               /\ Excess(balances[h], vesting[h]) >= 0
               /\ Excess(balances'[h], vesting'[h])
                    >= Excess(balances[h], vesting[h])]_vars

\* a holder has moved out the whole of its schedule and is refused the
\* transfer of a unit it received by a plain mint or an inbound transfer
C20_Witness ==
    /\ last.op = "transfer" /\ last.err = ErrAmountLocked
    /\ HasSchedule(last.from)
    /\ vesting[last.from].released = vesting[last.from].total
    /\ now >= vesting[last.from].start + vesting[last.from].duration
    /\ last.amount > 0 /\ balances[last.from] >= last.amount

====
